---------------------------- MODULE Spec2Model ----------------------------
(***************************************************************************)
(* MonLivreDeCuisine: the FastAPI handlers of src/main.py over the tables  *)
(* of src/models.py, with the request schemas of src/schemas.py.           *)
(*                                                                         *)
(* Strings are sequences of one-character strings.  A request handler is   *)
(* a read step (its SELECTs and its checks) followed by a write step (its  *)
(* DML and db.commit()); the steps of different requests interleave.       *)
(***************************************************************************)
EXTENDS Integers, Sequences, FiniteSets, TLC

VARIABLES
    dialect,        \* engine.dialect.name: "sqlite" or "postgresql"
    users,          \* table users: set of rows [id, email, is_admin]
    recipes,        \* table recipes: set of rows [id, auteur_id, f]
    ingredients,    \* table ingredients: set of rows [id, nom, recipe_id]
    steps,          \* table steps: set of rows [id, ordre, recipe_id]
    reqs,           \* the requests in flight, one per worker thread
    last,           \* the response of the request that completed last
    users_id_seq,   \* PostgreSQL's sequence behind users.id (last value)
    nops            \* number of requests started so far

vars == <<dialect, users, recipes, ingredients, steps, reqs, last, users_id_seq, nops>>

NULL == "NULL"      \* SQL NULL / Python None
UNSET == "UNSET"    \* a field the request body does not carry

(***************************************************************************)
(* Bounds of the model.                                                    *)
(***************************************************************************)
MaxWorkers == 2     \* requests in flight at once
MaxOps == 2         \* requests started in one behaviour
MaxUserId == 4      \* ids the users table ever hands out
MaxPantry == 2      \* pantry terms in one fridge search
MaxRows == 2        \* ingredient rows of one recipe in the fridge store
MaxRecipeId == 2    \* recipe ids a request can name

(***************************************************************************)
(* Strings.                                                                *)
(***************************************************************************)
Lower(c) == CASE c = "T" -> "t" [] c = "O" -> "o" [] OTHER -> c

IsSpace(c) == c = " "

RECURSIVE LStrip(_)
LStrip(s) == IF s # <<>> /\ IsSpace(Head(s)) THEN LStrip(Tail(s)) ELSE s

RECURSIVE RStrip(_)
RStrip(s) ==
    IF s # <<>> /\ IsSpace(s[Len(s)]) THEN RStrip(SubSeq(s, 1, Len(s) - 1)) ELSE s

\* str.strip()
Strip(s) == RStrip(LStrip(s))

\* [ing.strip() for ing in search.ingredients if ing.strip()]
RECURSIVE CleanPantry(_)
CleanPantry(p) ==
    IF p = <<>> THEN <<>>
    ELSE IF Strip(Head(p)) = <<>> THEN CleanPantry(Tail(p))
    ELSE <<Strip(Head(p))>> \o CleanPantry(Tail(p))

\* SQL LIKE on case-folded operands: % is any run of characters, _ any one.
RECURSIVE Like(_, _)
Like(pat, s) ==
    IF pat = <<>> THEN s = <<>>
    ELSE IF Head(pat) = "%" THEN
        Like(Tail(pat), s) \/ (s # <<>> /\ Like(pat, Tail(s)))
    ELSE /\ s # <<>>
         /\ (Head(pat) = "_" \/ Lower(Head(pat)) = Lower(Head(s)))
         /\ Like(Tail(pat), Tail(s))

\* Ingredient.nom.ilike(f"%{ing}%")
ILikeContains(nom, ing) == Like(<<"%">> \o ing \o <<"%">>, nom)

\* or_(*filters)
MatchesAny(nom, terms) == \E i \in 1..Len(terms) : ILikeContains(nom, terms[i])

\* plain case-insensitive substring containment (what the claims speak of)
IsSubstringCI(term, nom) ==
    \E i \in 0..(Len(nom) - Len(term)) :
        \A j \in 1..Len(term) : Lower(term[j]) = Lower(nom[i + j])


(***************************************************************************)
(* Fridge search: POST /search/frigo.                                      *)
(***************************************************************************)
\* the fields each request schema declares; pydantic drops any other key of
\* the body, and reading an undeclared attribute raises AttributeError
FrigoSearchRequestFields == {"ingredients"}
RecipeCreateFields ==
    {"titre", "categorie", "temps_prep", "temps_cuisson", "temperature",
     "ingredients", "steps"}

Max(a, b) == IF a > b THEN a ELSE b

SetMax(S) == IF S = {} THEN 0 ELSE CHOOSE x \in S : \A y \in S : y <= x

\* all orders in which the rows of a finite set can come back
Perms(S) ==
    {q \in [1..Cardinality(S) -> S] : \A i, j \in 1..Cardinality(S) : q[i] = q[j] => i = j}

\* recipe.ingredients
RowsOf(rid) == {i \in ingredients : i.recipe_id = rid}

\* the rows of one group that pass .filter(or_(*filters))
MatchedRows(rid, terms) == {i \in RowsOf(rid) : MatchesAny(i.nom, terms)}

\* func.count(Ingredient.id)
MatchCount(rid, terms) == Cardinality(MatchedRows(rid, terms))

\* .join(Ingredient) ... .group_by(Recipe.id): the recipes with a passing row
MatchingIds(terms) == {r.id : r \in {x \in recipes : MatchedRows(x.id, terms) # {}}}

\* func.group_concat(Ingredient.nom): the names joined by "," in row order
RECURSIVE GroupConcat(_)
GroupConcat(rows) ==
    IF Len(rows) = 0 THEN <<>>
    ELSE IF Len(rows) = 1 THEN rows[1].nom
    ELSE rows[1].nom \o <<",">> \o GroupConcat(Tail(rows))

\* str.split(',')
RECURSIVE SplitComma(_, _)
SplitComma(s, cur) ==
    IF s = <<>> THEN <<cur>>
    ELSE IF Head(s) = "," THEN <<cur>> \o SplitComma(Tail(s), <<>>)
    ELSE SplitComma(Tail(s), Append(cur, Head(s)))

\* the rows .all() can return: one per group, .order_by(desc('match_count')),
\* ties and the order inside group_concat left to the database
MatchingRecipes(terms) ==
    {q \in [1..Cardinality(MatchingIds(terms)) ->
              UNION {{[recipe_id |-> rid,
                       match_count |-> MatchCount(rid, terms),
                       matched_names |-> GroupConcat(o)] :
                          o \in Perms(MatchedRows(rid, terms))} :
                     rid \in MatchingIds(terms)}] :
        /\ \A i, j \in DOMAIN q : q[i].recipe_id = q[j].recipe_id => i = j
        /\ \A i \in DOMAIN q : i < Len(q) => q[i].match_count >= q[i + 1].match_count}

\* the loop of lines 387-405 over the query's rows
RECURSIVE BuildResults(_, _)
BuildResults(q, strict_mode) ==
    IF q = <<>> THEN <<>>
    ELSE LET row == Head(q)
             total_ingredients == Cardinality(RowsOf(row.recipe_id))
         IN  IF strict_mode /\ row.match_count < total_ingredients
             THEN BuildResults(Tail(q), strict_mode)
             ELSE <<[recipe |-> row.recipe_id,
                     match_count |-> row.match_count,
                     matched_ingredients |->
                         IF row.matched_names # <<>>
                         THEN SplitComma(row.matched_names, <<>>) ELSE <<>>]>>
                  \o BuildResults(Tail(q), strict_mode)

\* the query of lines 372-383 is reached and the database can run it:
\* group_concat is no function of PostgreSQL
QueryRuns(body) ==
    /\ Len(body.ingredients) >= 1
    /\ CleanPantry(body.ingredients) # <<>>
    /\ dialect # "postgresql"

\* the handler's response to `body`, q being the rows the query returned
SearchFrigoResponse(body, q) ==
    LET search_ingredients == CleanPantry(body.ingredients) IN
    \* ingredients: List[str] = Field(..., min_items=1)
    IF Len(body.ingredients) < 1 THEN [status |-> 422, results |-> <<>>]
    ELSE IF search_ingredients = <<>> THEN [status |-> 200, results |-> <<>>]
    ELSE IF ~QueryRuns(body) THEN [status |-> 500, results |-> <<>>]
    ELSE IF q = <<>> THEN [status |-> 200, results |-> <<>>]
    \* first pass of the loop reads search.strict_mode
    ELSE IF "strict_mode" \notin FrigoSearchRequestFields
         THEN [status |-> 500, results |-> <<>>]
    ELSE [status |-> 200, results |-> BuildResults(q, body.strict_mode)]

\* names and pantry terms the fridge store and the searches are drawn from
IngredientNames ==
    {<<"t">>, <<"T", "o">>, <<"o">>, <<"s">>, <<"t", ",", "o">>}
PantryTerms ==
    {<<"t">>, <<"O">>, <<" ", "t", "o">>, <<" ">>, <<"%">>, <<"_", "o">>}
FridgeRecipeIds == {1, 2}

SeqsUpTo(S, n) == UNION {[1..k -> S] : k \in 0..n}

\* the ingredient rows of a store in which recipe rid has the names noms[rid]
StoreRows(noms) ==
    UNION {{[id |-> (rid - 1) * (MaxRows + 1) + k, nom |-> noms[rid][k], recipe_id |-> rid] :
              k \in 1..Len(noms[rid])} : rid \in DOMAIN noms}

NoRecipeFields ==
    [titre |-> "t0", categorie |-> "Plat", temps_prep |-> NULL,
     temps_cuisson |-> NULL, temperature |-> NULL]

Idle == [kind |-> "idle"]

InitFrigo ==
    /\ dialect \in {"sqlite", "postgresql"}
    /\ users = {[id |-> 1, email |-> "e1", is_admin |-> FALSE]}
    /\ recipes = {[id |-> rid, auteur_id |-> 1, f |-> NoRecipeFields] : rid \in FridgeRecipeIds}
    /\ \E noms \in [FridgeRecipeIds -> SeqsUpTo(IngredientNames, MaxRows)] :
           ingredients = StoreRows(noms)
    /\ steps = {}
    /\ reqs = [w \in 1..MaxWorkers |-> Idle]
    /\ last = [kind |-> "none"]
    /\ users_id_seq = 1
    /\ nops = 0

search_frigo ==
    /\ nops = 0
    /\ \E pantry \in SeqsUpTo(PantryTerms, MaxPantry), strict \in BOOLEAN :
         LET body == [ingredients |-> pantry, strict_mode |-> strict]
             terms == CleanPantry(pantry)
         IN  \E q \in (IF QueryRuns(body) THEN MatchingRecipes(terms) ELSE {<<>>}) :
                 last' = [kind |-> "search_frigo", body |-> body, terms |-> terms,
                          query |-> q] @@ SearchFrigoResponse(body, q)
    /\ nops' = nops + 1
    /\ UNCHANGED <<dialect, users, recipes, ingredients, steps, reqs, users_id_seq>>

NextFrigo == search_frigo

SpecFrigo == InitFrigo /\ [][NextFrigo]_vars


(***************************************************************************)
(* The tables and the requests of the API.                                 *)
(***************************************************************************)
BaseFields == {"titre", "categorie", "temps_prep", "temps_cuisson", "temperature"}
NullableFields == {"temps_prep", "temps_cuisson", "temperature"}

Emails == {"e1", "e2", "e3"}

UserIds == {u.id : u \in users}
RecipeIds == {r.id : r \in recipes}
UserRow(id) == CHOOSE u \in users : u.id = id
RecipeRow(id) == CHOOSE r \in recipes : r.id = id
StepsOf(rid) == {s \in steps : s.recipe_id = rid}

\* db.query(User).filter(User.is_admin == True).first()
AdminExists == \E u \in users : u.is_admin

\* auth.get_current_user: the users a valid bearer token resolves to
get_current_user == users

\* a request in flight: what it was sent and what its session has loaded
Req(kind, actor, target, payload, snap) ==
    [kind |-> kind, actor |-> actor, target |-> target, payload |-> payload, snap |-> snap]

\* the response leaves the worker free for the next request
Respond(w, req, status) ==
    /\ last' = [kind |-> req.kind, req |-> req, status |-> status]
    /\ reqs' = [reqs EXCEPT ![w] = Idle]

\* the request goes on to its write step
Proceed(w, req) ==
    /\ reqs' = [reqs EXCEPT ![w] = req]
    /\ UNCHANGED last

\* a new request goes to the first worker that is free
Free(w) ==
    /\ reqs[w] = Idle
    /\ \A v \in 1..(w - 1) : reqs[v] # Idle
    /\ nops < MaxOps

NoWrite == UNCHANGED <<dialect, users, recipes, ingredients, steps, users_id_seq>>

(***************************************************************************)
(* POST /auth/register                                                     *)
(***************************************************************************)
\* auth.get_user_by_email(db, email)
get_user_by_email(email) == {u \in users : u.email = email}

\* registrations in flight, each about to draw an id
Registering == {v \in DOMAIN reqs : reqs[v].kind = "register"}

register_read(w) ==
    /\ Free(w)
    /\ Max(SetMax(UserIds), users_id_seq) + Cardinality(Registering) < MaxUserId
    /\ nops' = nops + 1
    /\ \E email \in Emails :
         LET rq == Req("register", NULL, NULL, email, NULL) IN
         IF get_user_by_email(email) # {}
         THEN Respond(w, rq, 400)
         ELSE Proceed(w, rq)
    /\ NoWrite

\* the id the INSERT gives the new users row
NewUserId ==
    IF dialect = "sqlite" THEN SetMax(UserIds) + 1 ELSE users_id_seq + 1

\* db.add(db_user); db.commit(): email is unique=True
register_commit(w) ==
    /\ reqs[w].kind = "register"
    /\ IF \E u \in users : u.email = reqs[w].payload
       THEN \* IntegrityError, raised out of the handler
            /\ Respond(w, reqs[w], 500)
            /\ UNCHANGED users
       ELSE /\ users' = users \cup
                 {[id |-> NewUserId, email |-> reqs[w].payload, is_admin |-> FALSE]}
            /\ Respond(w, [reqs[w] EXCEPT !.target = NewUserId], 201)
    \* a failed INSERT has drawn its sequence value all the same
    /\ users_id_seq' = IF dialect = "sqlite" THEN users_id_seq ELSE users_id_seq + 1
    /\ UNCHANGED <<dialect, recipes, ingredients, steps, nops>>

(***************************************************************************)
(* PUT /admin/make-first-admin                                             *)
(***************************************************************************)
make_first_admin_read(w) ==
    /\ Free(w)
    /\ nops' = nops + 1
    /\ \E actor \in get_current_user :
         LET rq == Req("make_first_admin", actor, actor.id, NULL, NULL) IN
         IF AdminExists
         THEN Respond(w, rq, 403)
         ELSE Proceed(w, rq)
    /\ NoWrite

\* current_user.is_admin = True; db.commit()
make_first_admin_commit(w) ==
    /\ reqs[w].kind = "make_first_admin"
    /\ IF reqs[w].target \in UserIds
       THEN /\ users' = {IF u.id = reqs[w].target THEN [u EXCEPT !.is_admin = TRUE] ELSE u :
                            u \in users}
            /\ Respond(w, reqs[w], 200)
       ELSE \* the UPDATE matches no row: StaleDataError
            /\ UNCHANGED users
            /\ Respond(w, reqs[w], 500)
    /\ UNCHANGED <<dialect, recipes, ingredients, steps, users_id_seq, nops>>


(***************************************************************************)
(* The admin endpoints.                                                    *)
(***************************************************************************)
\* require_admin(current_user)
require_admin(actor) == actor.is_admin

\* IsSelf without the comparison: no target is taken for the caller
IsSelfNever(user, admin) == FALSE

\* lines 441 and 473: user.id == admin.id
IsSelf(user, admin) == user.id = admin.id

\* GET /admin/users: db.query(User).all() behind require_admin
get_all_users(w) ==
    /\ Free(w)
    /\ nops' = nops + 1
    /\ \E actor \in get_current_user :
         LET rq == Req("get_all_users", actor, NULL, NULL, NULL) IN
         Respond(w, rq, IF require_admin(actor) THEN 200 ELSE 403)
    /\ NoWrite

\* PUT /admin/users/{user_id}/toggle-admin, to the commit
toggle_admin_read(w) ==
    /\ Free(w)
    /\ nops' = nops + 1
    /\ \E actor \in get_current_user, user_id \in 1..MaxUserId :
         LET rq == Req("toggle_admin", actor, user_id, NULL, NULL) IN
         IF ~require_admin(actor) THEN Respond(w, rq, 403)
         ELSE IF user_id \notin UserIds THEN Respond(w, rq, 404)
         ELSE IF IsSelf(UserRow(user_id), actor) THEN Respond(w, rq, 400)
         \* user.is_admin = not user.is_admin, on the row as loaded
         ELSE Proceed(w, [rq EXCEPT !.snap = ~UserRow(user_id).is_admin])
    /\ NoWrite

toggle_admin_commit(w) ==
    /\ reqs[w].kind = "toggle_admin"
    /\ IF reqs[w].target \in UserIds
       THEN /\ users' = {IF u.id = reqs[w].target
                         THEN [u EXCEPT !.is_admin = reqs[w].snap] ELSE u : u \in users}
            /\ Respond(w, reqs[w], 200)
       ELSE \* the UPDATE matches no row: StaleDataError
            /\ UNCHANGED users
            /\ Respond(w, reqs[w], 500)
    /\ UNCHANGED <<dialect, recipes, ingredients, steps, users_id_seq, nops>>

\* DeleteRecipes without the cascade on Recipe.steps
DeleteRecipesKeepSteps(rids) ==
    /\ recipes' = {r \in recipes : r.id \notin rids}
    /\ ingredients' = {i \in ingredients : i.recipe_id \notin rids}
    /\ steps' = steps

\* the rows a flush deletes with the recipes `rids`: Recipe.ingredients and
\* Recipe.steps are cascade="all, delete-orphan"
DeleteRecipes(rids) ==
    /\ recipes' = {r \in recipes : r.id \notin rids}
    /\ ingredients' = {i \in ingredients : i.recipe_id \notin rids}
    /\ steps' = {s \in steps : s.recipe_id \notin rids}

\* DELETE /admin/users/{user_id}
admin_delete_user_read(w) ==
    /\ Free(w)
    /\ nops' = nops + 1
    /\ \E actor \in get_current_user, user_id \in 1..MaxUserId :
         LET rq == Req("admin_delete_user", actor, user_id, NULL, NULL) IN
         IF ~require_admin(actor) THEN Respond(w, rq, 403)
         ELSE IF user_id \notin UserIds THEN Respond(w, rq, 404)
         ELSE IF IsSelf(UserRow(user_id), actor) THEN Respond(w, rq, 400)
         ELSE Proceed(w, rq)
    /\ NoWrite

\* db.delete(user); db.commit(): User.recipes is cascade="all, delete-orphan"
admin_delete_user_commit(w) ==
    /\ reqs[w].kind = "admin_delete_user"
    /\ users' = {u \in users : u.id # reqs[w].target}
    /\ DeleteRecipes({r.id : r \in {x \in recipes : x.auteur_id = reqs[w].target}})
    /\ Respond(w, reqs[w], 204)
    /\ UNCHANGED <<dialect, users_id_seq, nops>>

\* DELETE /admin/recipes/{recipe_id}
admin_delete_recipe_read(w) ==
    /\ Free(w)
    /\ nops' = nops + 1
    /\ \E actor \in get_current_user, recipe_id \in 1..MaxRecipeId :
         LET rq == Req("admin_delete_recipe", actor, recipe_id, NULL, NULL) IN
         IF ~require_admin(actor) THEN Respond(w, rq, 403)
         ELSE IF recipe_id \notin RecipeIds THEN Respond(w, rq, 404)
         ELSE Proceed(w, rq)
    /\ NoWrite

\* db.delete(recipe); db.commit(), of both delete handlers
delete_recipe_commit(w) ==
    /\ reqs[w].kind \in {"admin_delete_recipe", "delete_recipe"}
    /\ DeleteRecipes({reqs[w].target})
    /\ Respond(w, reqs[w], 204)
    /\ UNCHANGED <<dialect, users, users_id_seq, nops>>

(***************************************************************************)
(* The recipe endpoints.                                                   *)
(***************************************************************************)
\* DeleteAllowed with the admin override of the update path
DeleteAllowedWithAdmin(recipe, actor) == recipe.auteur_id = actor.id \/ actor.is_admin

\* line 337: only the author deletes
DeleteAllowed(recipe, actor) == recipe.auteur_id = actor.id

\* line 270: the author or an admin updates
UpdateAllowed(recipe, actor) == recipe.auteur_id = actor.id \/ actor.is_admin

\* DELETE /recipes/{recipe_id}
delete_recipe_read(w) ==
    /\ Free(w)
    /\ nops' = nops + 1
    /\ \E actor \in get_current_user, recipe_id \in 1..MaxRecipeId :
         LET rq == Req("delete_recipe", actor, recipe_id, NULL, NULL) IN
         IF recipe_id \notin RecipeIds THEN Respond(w, rq, 404)
         ELSE IF ~DeleteAllowed(RecipeRow(recipe_id), actor) THEN Respond(w, rq, 403)
         ELSE Proceed(w, [rq EXCEPT !.snap = RecipeRow(recipe_id).auteur_id])
    /\ NoWrite


\* bodies of PUT /recipes/{recipe_id}: each base field is UNSET (not in the
\* body), NULL (sent as null) or a value; a list is NULL or a sequence
Unset == [x \in BaseFields |-> UNSET]

NewValue(x) ==
    CASE x = "titre" -> "t1" [] x = "categorie" -> "Dessert" [] OTHER -> "20"

\* an Optional[List[...]] of the body: None, or the list given
None == [given |-> FALSE, items |-> <<>>]
Given(items) == [given |-> TRUE, items |-> items]

IngredientLists == {None, Given(<<>>), Given(<< <<"s">> >>)}
StepLists == {None, Given(<<>>), Given(<<2>>)}

\* the base fields the bodies of the model set
UpdatedFields == {"temps_prep"}

RecipeUpdates ==
    UNION {{[f |-> [Unset EXCEPT ![x] = v], ingredients |-> None, steps |-> None] :
               v \in {NULL, NewValue(x)}} : x \in UpdatedFields}
    \cup {[f |-> Unset, ingredients |-> il, steps |-> None] : il \in IngredientLists}
    \cup {[f |-> Unset, ingredients |-> None, steps |-> sl] : sl \in StepLists}

\* IsNotNone as a truthiness test, `if recipe_update.ingredients:`
IsTruthy(opt) == opt.given /\ opt.items # <<>>

\* lines 290 and 304: recipe_update.ingredients is not None
IsNotNone(opt) == opt.given

\* recipe_update.model_dump(exclude_unset=True)
model_dump(body) == {x \in BaseFields : body.f[x] # UNSET}

\* lines 281-283: the fields the loop assigns
AssignedFields(body) == {x \in model_dump(body) : body.f[x] # NULL}

\* the base fields of db_recipe after the loop, from the row as loaded
AfterSetattr(loaded, body) ==
    [x \in BaseFields |-> IF x \in AssignedFields(body) THEN body.f[x] ELSE loaded[x]]

\* the rows db.add() gives the new children of recipe rid
NewRows(table, rid, items, key) ==
    {[id |-> SetMax({t.id : t \in table}) + k, recipe_id |-> rid] @@ (key :> items[k]) :
        k \in 1..Len(items)}

update_recipe_read(w) ==
    /\ Free(w)
    /\ nops' = nops + 1
    /\ \E actor \in get_current_user, recipe_id \in 1..MaxRecipeId, body \in RecipeUpdates :
         LET rq == Req("update_recipe", actor, recipe_id, body, NULL) IN
         IF recipe_id \notin RecipeIds THEN Respond(w, rq, 404)
         ELSE IF ~UpdateAllowed(RecipeRow(recipe_id), actor) THEN Respond(w, rq, 403)
         ELSE Proceed(w, [rq EXCEPT !.snap = RecipeRow(recipe_id).f])
    /\ NoWrite

\* lines 278-317: the assignments, the replacement of the children, the commit
update_recipe_commit(w) ==
    LET rq == reqs[w]
        rid == rq.target
        body == rq.payload
        after == AfterSetattr(rq.snap, body)
        \* the flush UPDATEs the columns whose value differs from the loaded one
        dirty == {x \in BaseFields : after[x] # rq.snap[x]}
        found == rid \in RecipeIds
        adds == Len(body.ingredients.items) + Len(body.steps.items)
    IN
    /\ rq.kind = "update_recipe"
    /\ IF ~found /\ (dirty # {} \/ (dialect = "postgresql" /\ adds > 0))
       THEN \* StaleDataError on the UPDATE, or the foreign key refuses the
            \* INSERT: nothing is committed
            /\ UNCHANGED <<recipes, ingredients, steps>>
            /\ Respond(w, rq, 500)
       ELSE /\ recipes' = {IF r.id = rid
                           THEN [r EXCEPT !.f = [x \in BaseFields |->
                                     IF x \in dirty THEN after[x] ELSE r.f[x]]]
                           ELSE r : r \in recipes}
            /\ ingredients' =
                 IF ~IsNotNone(body.ingredients) THEN ingredients
                 ELSE (ingredients \ RowsOf(rid))
                      \cup NewRows(ingredients, rid, body.ingredients.items, "nom")
            /\ steps' =
                 IF ~IsNotNone(body.steps) THEN steps
                 ELSE (steps \ StepsOf(rid))
                      \cup NewRows(steps, rid, body.steps.items, "ordre")
            \* db.refresh(db_recipe) raises when the row is gone
            /\ Respond(w, rq, IF found THEN 200 ELSE 500)
    /\ UNCHANGED <<dialect, users, users_id_seq, nops>>

\* bodies of POST /recipes
RecipeCreates ==
    {[f |-> [x \in BaseFields |-> NewValue(x)], ingredients |-> il, steps |-> <<>>] :
        il \in {<<>>, << <<"s">> >>}}

\* POST /recipes: one transaction, db.flush() then db.commit()
create_recipe(w) ==
    /\ Free(w)
    /\ nops' = nops + 1
    /\ \E actor \in get_current_user, body \in RecipeCreates :
         LET rq == Req("create_recipe", actor, NULL, body, NULL)
             id == SetMax(RecipeIds) + 1
         IN
         IF "tags" \notin RecipeCreateFields
         THEN \* line 223 reads recipe.tags: AttributeError
              /\ UNCHANGED <<recipes, ingredients, steps>>
              /\ Respond(w, rq, 500)
         ELSE /\ recipes' = recipes \cup {[id |-> id, auteur_id |-> actor.id, f |-> body.f]}
              /\ ingredients' = ingredients \cup NewRows(ingredients, id, body.ingredients, "nom")
              /\ steps' = steps \cup NewRows(steps, id, body.steps, "ordre")
              /\ Respond(w, [rq EXCEPT !.target = id], 201)
    /\ UNCHANGED <<dialect, users, users_id_seq>>

(***************************************************************************)
(* The API over a database that already holds users and recipes.           *)
(***************************************************************************)
InitFields ==
    [titre |-> "t0", categorie |-> "Plat", temps_prep |-> "10",
     temps_cuisson |-> NULL, temperature |-> "180"]

Init ==
    /\ dialect \in {"sqlite", "postgresql"}
    /\ \E a1, a2 \in BOOLEAN :
         users = {[id |-> 1, email |-> "e1", is_admin |-> a1],
                  [id |-> 2, email |-> "e2", is_admin |-> a2]}
    /\ recipes = {[id |-> 1, auteur_id |-> 1, f |-> InitFields],
                  [id |-> 2, auteur_id |-> 2, f |-> InitFields]}
    /\ ingredients = {[id |-> 1, nom |-> <<"t">>, recipe_id |-> 1],
                      [id |-> 2, nom |-> <<"o">>, recipe_id |-> 2]}
    /\ steps = {[id |-> 1, ordre |-> 1, recipe_id |-> 1],
                [id |-> 2, ordre |-> 1, recipe_id |-> 2]}
    /\ reqs = [w \in 1..MaxWorkers |-> Idle]
    /\ last = [kind |-> "none"]
    /\ users_id_seq = 2
    /\ nops = 0

Next ==
    \E w \in 1..MaxWorkers :
        \/ register_read(w)
        \/ register_commit(w)
        \/ make_first_admin_read(w)
        \/ make_first_admin_commit(w)
        \/ get_all_users(w)
        \/ toggle_admin_read(w)
        \/ toggle_admin_commit(w)
        \/ admin_delete_user_read(w)
        \/ admin_delete_user_commit(w)
        \/ admin_delete_recipe_read(w)
        \/ delete_recipe_read(w)
        \/ delete_recipe_commit(w)
        \/ update_recipe_read(w)
        \/ update_recipe_commit(w)
        \/ create_recipe(w)

Spec == Init /\ [][Next]_vars

(***************************************************************************)
(* Claims about the fridge search, checked under SpecFrigo.                *)
(***************************************************************************)
Range(q) == {q[k] : k \in DOMAIN q}

\* the rows of recipe rid whose name contains a term as a substring
SubstringRows(rid, terms) ==
    {i \in RowsOf(rid) : \E k \in DOMAIN terms : IsSubstringCI(terms[k], i.nom)}

Searched == last.kind = "search_frigo" /\ last.terms # <<>>

\* C2: a search with a non-empty cleaned pantry and strict=false returns
\* exactly the recipes with an ingredient row whose name contains a pantry
\* term (case-insensitive substring), each with match_count = the number of
\* such rows of the recipe, hence >= 1.
C2_NonStrictExactMatches ==
    (Searched /\ ~last.body.strict_mode) =>
        /\ last.status = 200
        /\ {res.recipe : res \in Range(last.results)}
             = {r.id : r \in {x \in recipes : SubstringRows(x.id, last.terms) # {}}}
        /\ \A res \in Range(last.results) :
             /\ res.match_count = Cardinality(SubstringRows(res.recipe, last.terms))
             /\ res.match_count >= 1

\* C3: a search with strict=true returns exactly the recipes with at least
\* one ingredient all of whose ingredient rows match a pantry term, each with
\* match_count = its total ingredient count.
C3_StrictAllMatched ==
    (Searched /\ last.body.strict_mode) =>
        /\ last.status = 200
        /\ {res.recipe : res \in Range(last.results)}
             = {r.id : r \in {x \in recipes :
                    /\ RowsOf(x.id) # {}
                    /\ SubstringRows(x.id, last.terms) = RowsOf(x.id)}}
        /\ \A res \in Range(last.results) :
             res.match_count = Cardinality(RowsOf(res.recipe))

\* C4: a search, strict or not, that two or more recipes match returns its
\* results sorted by match_count descending: each result's match_count is
\* >= the next one's.
C4_SortedByMatchCount ==
    (Searched /\ Cardinality(MatchingIds(last.terms)) >= 2) =>
        /\ last.status = 200
        /\ \A k \in DOMAIN last.results :
             k < Len(last.results) =>
                 last.results[k].match_count >= last.results[k + 1].match_count

(***************************************************************************)
(* Claims about the endpoints, checked under Spec.                         *)
(***************************************************************************)
Answered(kind, status) == last.kind = kind /\ last.status = status

\* worker w's request of this kind takes its write step and is answered
Commits(w, kind) == reqs[w].kind = kind /\ reqs'[w] = Idle

Admins == {u \in users : u.is_admin}

\* C1: of the make_first_admin calls racing from a state without admins
\* exactly one succeeds: when a call has succeeded its caller is the only
\* admin, the others having been refused and left non-admin.
C1_OnePromotionWins ==
    Answered("make_first_admin", 200) => Admins = {UserRow(last.req.target)}

\* C9: no two users share an email, and a register call that creates no
\* user is answered 400 (duplicate email), whatever the interleaving.
C9_DuplicateEmailIs400 ==
    /\ \A u, v \in users : u.email = v.email => u.id = v.id
    /\ (last.kind = "register" /\ last.status # 201) => last.status = 400

\* C7: after a successful update a nullable base field sent as explicit
\* null is null on the stored recipe.
C7_ExplicitNullClears ==
    Answered("update_recipe", 200) =>
        \A x \in NullableFields :
            last.req.payload.f[x] = NULL => RecipeRow(last.req.target).f[x] = NULL

\* C10: in every reachable state every ingredient and every step refers to
\* a recipe that exists.
C10_ChildrenHaveRecipe ==
    /\ \A i \in ingredients : i.recipe_id \in RecipeIds
    /\ \A t \in steps : t.recipe_id \in RecipeIds

\* what C5 says of each answer
C5_Answers ==
    /\ Answered("update_recipe", 200) =>
         \/ RecipeRow(last.req.target).auteur_id = last.req.actor.id
         \/ last.req.actor.is_admin
    /\ Answered("update_recipe", 403) =>
         /\ RecipeRow(last.req.target).auteur_id # last.req.actor.id
         /\ ~last.req.actor.is_admin
    /\ Answered("delete_recipe", 204) => last.req.snap = last.req.actor.id
    /\ Answered("delete_recipe", 403) =>
         /\ last.req.target \in RecipeIds
         /\ RecipeRow(last.req.target).auteur_id # last.req.actor.id
    /\ \A w \in DOMAIN reqs :
         reqs[w].kind = "delete_recipe" => reqs[w].snap = reqs[w].actor.id

\* the step that answers a delete with 403 writes nothing
C5_RefusalWritesNothing ==
    (last'.kind = "delete_recipe" /\ last'.status = 403 /\ nops' = nops + 1) =>
        UNCHANGED <<users, recipes, ingredients, steps>>

C6_UserDeleteCascades ==
    [][\A w \in DOMAIN reqs :
          Commits(w, "admin_delete_user") =>
            LET t == reqs[w].target
                owned == {r.id : r \in {x \in recipes : x.auteur_id = t}}
            IN  /\ t \notin {u.id : u \in users'}
                /\ recipes' = {r \in recipes : r.auteur_id # t}
                /\ ingredients' = {i \in ingredients : i.recipe_id \notin owned}
                /\ steps' = {x \in steps : x.recipe_id \notin owned}]_vars

\* user 2 has just been deleted from the initial store, recipe 2 with it
C6_UserDeleted ==
    /\ Answered("admin_delete_user", 204)
    /\ nops = 1
    /\ last.req.target = 2
    /\ RecipeIds = {1}
    /\ {i.recipe_id : i \in ingredients} = {1}
    /\ {x.recipe_id : x \in steps} = {1}

\* the values of column key in the rows are exactly the items of the list
SameItems(rows, key, items) ==
    /\ Cardinality(rows) = Len(items)
    /\ \A r \in rows :
         Cardinality({x \in rows : x[key] = r[key]})
           = Cardinality({k \in DOMAIN items : items[k] = r[key]})
    /\ \A k \in DOMAIN items : \E r \in rows : r[key] = items[k]

C8_Replaced ==
    Answered("update_recipe", 200) =>
        LET body == last.req.payload
            rid == last.req.target
        IN  /\ body.ingredients.given => SameItems(RowsOf(rid), "nom", body.ingredients.items)
            /\ body.steps.given => SameItems(StepsOf(rid), "ordre", body.steps.items)

C8_Kept ==
    \A w \in DOMAIN reqs :
        (Commits(w, "update_recipe") /\ last'.status = 200) =>
            LET body == reqs[w].payload
                rid == reqs[w].target
            IN  /\ ~body.ingredients.given =>
                     {i \in ingredients' : i.recipe_id = rid} = RowsOf(rid)
                /\ ~body.steps.given =>
                     {x \in steps' : x.recipe_id = rid} = StepsOf(rid)

\* C8: after a successful update that supplies an ingredients list the
\* recipe's ingredients are exactly the supplied ones, none when the list is
\* empty; the same for steps; a list not supplied leaves the rows unchanged.
C8_ListsReplaceWholesale == []C8_Replaced /\ [][C8_Kept]_vars

\* recipe 1's only ingredient has just been replaced by the empty list
C8_EmptiedByEmptyList ==
    /\ Answered("update_recipe", 200)
    /\ nops = 1
    /\ last.req.payload.ingredients = Given(<<>>)
    /\ RowsOf(last.req.target) = {}
    /\ StepsOf(last.req.target) # {}

(***************************************************************************)
(* Claims about the administrators, checked under Spec.                    *)
(***************************************************************************)
\* the operations behind require_admin
AdminGated == {"get_all_users", "admin_delete_user", "admin_delete_recipe", "toggle_admin"}

\* no request that has passed require_admin is still on its way
NoAdminCalls == \A w \in DOMAIN reqs : reqs[w].kind \notin AdminGated

\* the step takes a new request and answers it at once
AnswersAtOnce(kind) == nops' = nops + 1 /\ reqs' = reqs /\ last'.kind = kind

\* without an admin and without an admin's call on its way, only a
\* successful make_first_admin makes an admin
C11_OnlyPromotionMakesAdmin ==
    (~AdminExists /\ NoAdminCalls /\ AdminExists') =>
        \E w \in DOMAIN reqs : Commits(w, "make_first_admin") /\ last'.status = 200

\* without an admin every operation behind require_admin is answered 403
C11_GatedOpsForbidden ==
    (~AdminExists /\ NoAdminCalls) =>
        /\ NoAdminCalls'
        /\ \A kind \in AdminGated : AnswersAtOnce(kind) => last'.status = 403

\* register stores its user without the admin flag
C11_RegisterMakesNoAdmin ==
    \A w \in DOMAIN reqs :
        Commits(w, "register") => \A u \in users' \ users : ~u.is_admin

\* make_first_admin is answered 403 when an admin exists, and succeeds only
\* when there is none
C11_PromotionRefusedWithAdmin ==
    /\ (AdminExists /\ AnswersAtOnce("make_first_admin")) => last'.status = 403
    /\ \A w \in DOMAIN reqs :
         (Commits(w, "make_first_admin") /\ last'.status = 200) => ~AdminExists

\* C11: from a state without admins nothing but a successful
\* make_first_admin makes a user an admin: get_all_users, admin_delete_user,
\* admin_delete_recipe and toggle_admin are answered 403, register creates
\* non-admin users, and make_first_admin is answered 403 whenever an admin
\* exists.
C11_SoleBootstrapPath ==
    [][/\ C11_OnlyPromotionMakesAdmin
       /\ C11_GatedOpsForbidden
       /\ C11_RegisterMakesNoAdmin
       /\ C11_PromotionRefusedWithAdmin]_vars

\* the request a step takes in, answered at once or sent on to its commit
Taken ==
    IF reqs' = reqs THEN last'.req
    ELSE reqs'[CHOOSE w \in DOMAIN reqs : reqs'[w] # reqs[w]]

UserPaths == {"admin_delete_user", "toggle_admin"}

\* what C12 says of the step that takes in a request of an admin
C12_Refusals ==
    (nops' = nops + 1 /\ Taken.kind \in UserPaths /\ Taken.actor.is_admin) =>
        /\ Taken.target = Taken.actor.id =>
              /\ reqs' = reqs
              /\ last'.status = 400
              /\ UNCHANGED <<users, recipes, ingredients, steps>>
              /\ Taken.actor \in users'
        /\ Taken.target \notin UserIds =>
              /\ reqs' = reqs
              /\ last'.status = 404
              /\ UNCHANGED <<users, recipes, ingredients, steps>>

\* no delete or toggle that writes is aimed at its own caller
C12_NoSelfWrite ==
    \A w \in DOMAIN reqs :
        (Commits(w, "admin_delete_user") \/ Commits(w, "toggle_admin")) =>
            reqs[w].target # reqs[w].actor.id

\* C12: admin_delete_user and toggle_admin called by an admin on their own
\* id are answered 400 and write nothing: the admin is still there, still
\* admin, with all their recipes; called on an id no user has they are
\* answered 404 and write nothing.
C12_NoSelfRemoval == [][C12_Refusals /\ C12_NoSelfWrite]_vars

\* admin 1 has just been refused the deletion of their own account
C12_SelfDeleteRefused ==
    /\ Answered("admin_delete_user", 400)
    /\ last.req.target = last.req.actor.id
    /\ last.req.actor.is_admin
    /\ last.req.actor \in users
    /\ \E r \in recipes : r.auteur_id = last.req.actor.id

\* C13: once a user is admin no step of toggle_admin, admin_delete_user or
\* make_first_admin, in any interleaving, leaves the store without an admin.
C13_AdminsNeverRunOut == [][AdminExists => AdminExists']_vars

(***************************************************************************)
(* The matched names of the fridge search, checked under SpecFrigo.        *)
(***************************************************************************)
\* the results the loop of lines 387-405 builds from the rows of the query
LoopResults == BuildResults(last.query, last.body.strict_mode)

=============================================================================
